---- MODULE Spec2Model ----
(***************************************************************************)
(* Model of the automation utilities of the repository:                    *)
(*   scripts/copy_and_commit.py  (Directory Replicator, final variant)     *)
(*   scripts/update_yml.py       (Config Value Updater)                    *)
(*                                                                         *)
(* Four specifications share the module: SpecJoin (safe_join alone),      *)
(* SpecCopy (one run of copy_and_commit.py), SpecKV (read_key_values) and  *)
(* SpecUpd (update_yml.py run twice with the same command line).           *)
(*                                                                         *)
(* A path string is a record [lead, segs]: the number of leading "/" and   *)
(* the remainder split at "/".  "" is [0, <<>>], "/" is [1, <<>>],         *)
(* "a/" is [0, <<"a", "">>], "//r/x" is [2, <<"r", "x">>].                 *)
(***************************************************************************)
EXTENDS Integers, Sequences, FiniteSets, TLC

VARIABLES
    \* ---- safe_join called on its own (SpecJoin)
    jpc, jbase, juser, jres,
    \* ---- Directory Replicator, one invocation (SpecCopy)
    pc, argv, env, fs, fs0, repo_path, src_folder, dest_parent_abs,
    dst_folder_abs, dst_folder_rel, gitlog, rc, err,
    \* ---- Config Value Updater, two invocations in succession (SpecUpd)
    upc, uargs, disk, disk0, updates, yaml_files, idx, total_changed,
    urc, run, hist, prev_changed,
    \* ---- read_key_values (SpecKV)
    kpc, rows, table

jvars == <<jpc, jbase, juser, jres>>
cvars == <<pc, argv, env, fs, fs0, repo_path, src_folder, dest_parent_abs,
           dst_folder_abs, dst_folder_rel, gitlog, rc, err>>
uvars == <<upc, uargs, disk, disk0, updates, yaml_files, idx, total_changed,
           urc, run, hist, prev_changed>>
kvars == <<kpc, rows, table>>
vars == <<jvars, cvars, uvars, kvars>>

----------------------------------------------------------------------------
(* Sequences *)

Last(s) == s[Len(s)]
Front(s) == SubSeq(s, 1, Len(s) - 1)
IsPrefix(p, s) == Len(p) <= Len(s) /\ SubSeq(s, 1, Len(p)) = p
Range(s) == {s[i] : i \in 1..Len(s)}

----------------------------------------------------------------------------
(* posixpath, as copy_and_commit.py uses it *)

P(lead, segs) == [lead |-> lead, segs |-> segs]
NoPath == P(0, <<"?">>)

\* the process's working directory, where os.path.abspath anchors a
\* relative path
Cwd == P(1, <<"h">>)

\* os.path.isabs
IsAbs(p) == p.lead > 0

\* str.endswith("/")
EndsWithSep(p) ==
    IF p.segs = <<>> THEN p.lead > 0 ELSE Last(p.segs) = ""

\* os.path.join(a, b): an absolute b discards a; otherwise b is appended,
\* with a separator unless a is empty or already ends with one
PathJoin(a, b) ==
    IF IsAbs(b) THEN b
    ELSE IF a.lead = 0 /\ a.segs = <<>> THEN b
    ELSE IF a.segs = <<>> THEN P(a.lead, b.segs)
    ELSE IF EndsWithSep(a)
         THEN P(a.lead, Front(a.segs) \o (IF b.segs = <<>> THEN <<"">> ELSE b.segs))
         ELSE P(a.lead, a.segs \o (IF b.segs = <<>> THEN <<"">> ELSE b.segs))

\* the component loop of os.path.normpath: "" and "." are dropped, ".."
\* removes the component before it, is dropped at the root of an absolute
\* path and kept at the front of a relative one
RECURSIVE NormComps(_, _, _)
NormComps(segs, acc, rooted) ==
    IF segs = <<>> THEN acc
    ELSE LET c == Head(segs) IN
         IF c = "" \/ c = "." THEN NormComps(Tail(segs), acc, rooted)
         ELSE IF c # ".." \/ (~rooted /\ acc = <<>>)
                 \/ (acc # <<>> /\ Last(acc) = "..")
              THEN NormComps(Tail(segs), Append(acc, c), rooted)
         ELSE IF acc # <<>> THEN NormComps(Tail(segs), Front(acc), rooted)
         ELSE NormComps(Tail(segs), acc, rooted)

\* os.path.normpath: exactly two leading slashes are kept, three or more
\* become one; the empty result of a relative path is "."
NormPath(p) ==
    LET lead == IF p.lead = 2 THEN 2 ELSE IF p.lead > 0 THEN 1 ELSE 0
        comps == NormComps(p.segs, <<>>, lead > 0)
    IN  IF lead = 0 /\ comps = <<>> THEN P(0, <<".">>) ELSE P(lead, comps)

\* os.path.abspath
AbsPath(p) == NormPath(IF IsAbs(p) THEN p ELSE PathJoin(Cwd, p))

\* the components os.path.commonpath and os.path.relpath compare
Comps(p) == SelectSeq(p.segs, LAMBDA c : c # "" /\ c # ".")

RECURSIVE CommonPrefix(_, _)
CommonPrefix(a, b) ==
    IF a = <<>> \/ b = <<>> \/ Head(a) # Head(b) THEN <<>>
    ELSE <<Head(a)>> \o CommonPrefix(Tail(a), Tail(b))

\* os.path.commonpath([a, b]) of two absolute paths: one separator, then
\* the common leading components
CommonPath(a, b) == P(1, CommonPrefix(Comps(a), Comps(b)))

\* os.path.relpath(path, start)
RelPath(path, start) ==
    LET pl == Comps(AbsPath(path))
        sl == Comps(AbsPath(start))
        i == Len(CommonPrefix(sl, pl))
        rel == [k \in 1..(Len(sl) - i) |-> ".."] \o SubSeq(pl, i + 1, Len(pl))
    IN  IF rel = <<>> THEN P(0, <<".">>) ELSE P(0, rel)

\* str.strip(): the strings of the model that carry outer whitespace
StrStrip(c) ==
    CASE c = " " -> ""
      [] c = " ." -> "."
      [] c = ". " -> "."
      [] c = " region " -> "region"
      [] c = "timeout " -> "timeout"
      [] OTHER -> c

\* user_path.strip() in ("", ".")
StripsToBase(u) ==
    /\ u.lead = 0
    /\ \/ u.segs = <<>>
       \/ Len(u.segs) = 1 /\ StrStrip(u.segs[1]) \in {"", "."}

\* safe_join's joined path
SafeJoinJoined(base_dir, user_path) ==
    IF StripsToBase(user_path) THEN AbsPath(base_dir)
    ELSE AbsPath(PathJoin(base_dir, user_path))

\* the test with a slip: any common path at all is accepted
SafeJoinInside_Mut(base_abs, joined) == IsAbs(CommonPath(base_abs, joined))

\* safe_join's containment test: the common path must be the base itself
SafeJoinInside(base_abs, joined) == CommonPath(base_abs, joined) = base_abs

\* safe_join(base_dir, user_path): the path, or the ValueError
SafeJoin(base_dir, user_path) ==
    LET joined == SafeJoinJoined(base_dir, user_path)
        base_abs == AbsPath(base_dir)
    IN  IF SafeJoinInside(base_abs, joined)
        THEN [ok |-> TRUE, path |-> joined]
        ELSE [ok |-> FALSE, path |-> NoPath]

----------------------------------------------------------------------------
(* The filesystem: a function from the components of an absolute path to  *)
(* "dir" or to a file's content.  The root <<>> is always a directory.    *)

Invalid == <<"!">>

\* the kernel's walk along a path string: every component but the last is
\* followed only through a directory
RECURSIVE Walk(_, _, _)
Walk(f, cur, segs) ==
    IF segs = <<>> THEN cur
    ELSE IF cur \notin DOMAIN f \/ f[cur] # "dir" THEN Invalid
    ELSE LET c == Head(segs) IN
         IF c = "" \/ c = "." THEN Walk(f, cur, Tail(segs))
         ELSE IF c = ".."
              THEN Walk(f, IF cur = <<>> THEN cur ELSE Front(cur), Tail(segs))
         ELSE Walk(f, Append(cur, c), Tail(segs))

Kind(f, p) ==
    LET r == Walk(f, IF IsAbs(p) THEN <<>> ELSE Cwd.segs, p.segs)
    IN  IF r \in DOMAIN f THEN f[r] ELSE "none"

\* os.path.isdir, os.path.exists
IsDir(f, p) == Kind(f, p) = "dir"
Exists(f, p) == Kind(f, p) # "none"

Prefixes(comps) == {SubSeq(comps, 1, n) : n \in 0..Len(comps)}

\* os.makedirs(path, exist_ok=True) of a normalized absolute path fails
\* when a component on the way is a file
MakeDirsFails(f, comps) ==
    \E q \in Prefixes(comps) : q \in DOMAIN f /\ f[q] # "dir"

MakeDirsFs(f, comps) ==
    [q \in DOMAIN f \cup Prefixes(comps) |-> IF q \in DOMAIN f THEN f[q] ELSE "dir"]

Under(f, top) == {p \in DOMAIN f : IsPrefix(top, p)}
Rebase(p, from, to) == to \o SubSeq(p, Len(from) + 1, Len(p))
SubTree(f, top) ==
    [s \in {SubSeq(p, Len(top) + 1, Len(p)) : p \in Under(f, top)} |-> f[top \o s]]

\* shutil.copytree(src, dst) lists a directory, creates its copy, then
\* copies the listed entries.  With dst below src the walk comes back to
\* dst and never ends unless dst's first component below src did not exist
\* when src was listed.
CopyTreeRunsAway(f, src, dst) ==
    /\ IsPrefix(src, dst)
    /\ Len(dst) > Len(src)
    /\ SubSeq(dst, 1, Len(src) + 1) \in DOMAIN f

\* a copy that does not descend: the directory and its entries only
CopyTreeFs_Mut(f, src, dst) ==
    LET g == MakeDirsFs(f, dst)
        img == {Rebase(p, src, dst) : p \in {q \in Under(f, src) : Len(q) <= Len(src) + 1}}
    IN  [q \in DOMAIN g \cup img |->
            IF q \in img
            THEN f[src \o SubSeq(q, Len(dst) + 1, Len(q))]
            ELSE g[q]]

CopyTreeFs(f, src, dst) ==
    LET g == MakeDirsFs(f, dst)
        img == {Rebase(p, src, dst) : p \in Under(f, src)}
    IN  [q \in DOMAIN g \cup img |->
            IF q \in img
            THEN f[src \o SubSeq(q, Len(dst) + 1, Len(q))]
            ELSE g[q]]

\* what an interrupted copy has written: the destination and any part of
\* the copy closed under parents
PartialCopies(f, src, dst) ==
    LET full == CopyTreeFs(f, src, dst)
        new == DOMAIN full \ DOMAIN MakeDirsFs(f, dst)
    IN  {[q \in DOMAIN MakeDirsFs(f, dst) \cup S |-> full[q]] :
            S \in {T \in SUBSET new : \A q \in T : Front(q) \in T \/ Front(q) = dst}}

----------------------------------------------------------------------------
(* Directory Replicator: the inputs of one invocation *)

Tree1 ==
    (<<>> :> "dir") @@ (<<"h">> :> "dir") @@ (<<"etc">> :> "dir") @@
    (<<"w">> :> "dir") @@ (<<"w", "n">> :> "dir") @@
    (<<"w", "r">> :> "dir") @@ (<<"w", "r", ".git">> :> "dir") @@
    (<<"w", "r", "s">> :> "dir") @@ (<<"w", "r", "s", "f">> :> "one") @@
    (<<"w", "r", "s", "d">> :> "dir") @@ (<<"w", "r", "s", "d", "g">> :> "two") @@
    (<<"w", "r", "t">> :> "dir") @@ (<<"w", "r", "x">> :> "three")

Tree2 ==
    (<<>> :> "dir") @@ (<<"h">> :> "dir") @@ (<<"etc">> :> "dir") @@
    (<<"w">> :> "dir") @@ (<<"w", "n">> :> "dir") @@
    (<<"w", "r">> :> "dir") @@ (<<"w", "r", ".git">> :> "dir") @@
    (<<"w", "r", "s">> :> "dir") @@ (<<"w", "r", "s", "f">> :> "two") @@
    (<<"w", "r", "t">> :> "dir") @@ (<<"w", "r", "t", "c">> :> "dir") @@
    (<<"w", "r", "x">> :> "three")

Trees == {Tree1, Tree2}

\* GITHUB_WORKSPACE: unset, or the checkout directory
Workspaces == {NoPath, P(1, <<"w">>)}

RepoArgs ==
    { P(1, <<"w", "r">>), P(0, <<"r">>), P(2, <<"w", "r">>),
      P(1, <<"w", "r", "">>), P(1, <<"w", "n">>), P(1, <<"w", "zz">>) }

SrcArgs ==
    { P(0, <<"s">>), P(0, <<"s", "d">>), P(0, <<>>), P(0, <<"..", "n">>),
      P(1, <<"etc">>), P(0, <<"zz">>), P(0, <<"x">>),
      P(0, <<"s", "..", "s">>), P(2, <<"w", "r", "s">>) }

DestPathArgs ==
    { P(0, <<>>), P(0, <<"t">>), P(0, <<"new">>), P(0, <<"new", "deep">>),
      P(0, <<"..">>), P(1, <<"etc">>), P(0, <<"x">>), P(0, <<"s">>),
      P(0, <<"s", "d">>), P(2, <<"w", "r", "t">>) }

DestNameArgs ==
    { P(0, <<"c">>), P(0, <<>>), P(0, <<".">>), P(0, <<" ">>),
      P(0, <<"..", "..", "etc">>), P(0, <<"..", "c">>), P(0, <<"d">>),
      P(0, <<"a", "b">>) }

Args(n, repo, src, dpath, dname) ==
    [argc |-> n, repo |-> repo, src |-> src, dest_path |-> dpath, dest_name |-> dname]

\* sys.argv: the program name and four arguments, or a wrong count
ArgvSet ==
    {Args(5, r, s, d, n) : r \in RepoArgs, s \in SrcArgs, d \in DestPathArgs,
                           n \in DestNameArgs}
    \cup {Args(4, P(1, <<"w", "r">>), P(0, <<"s">>), P(0, <<"t">>), P(0, <<>>))}

\* resolve_repo_path
ResolveRepoPath(repo, workspace) ==
    IF IsAbs(repo) THEN repo
    ELSE IF workspace # NoPath THEN AbsPath(PathJoin(workspace, repo))
    ELSE AbsPath(repo)

----------------------------------------------------------------------------
(* Directory Replicator: main(), one action per step of the script *)

\* rc is -1 while the process has not exited
CopyIdle ==
    /\ pc = "idle" /\ argv = Args(0, NoPath, NoPath, NoPath, NoPath)
    /\ env = NoPath /\ fs = Tree1 /\ fs0 = Tree1
    /\ repo_path = NoPath /\ src_folder = NoPath /\ dest_parent_abs = NoPath
    /\ dst_folder_abs = NoPath /\ dst_folder_rel = NoPath
    /\ gitlog = <<>> /\ rc = -1 /\ err = "none"

CopyInit ==
    /\ pc = "start"
    /\ argv \in ArgvSet
    /\ env \in Workspaces
    /\ fs \in Trees
    /\ fs0 = fs
    /\ repo_path = NoPath /\ src_folder = NoPath /\ dest_parent_abs = NoPath
    /\ dst_folder_abs = NoPath /\ dst_folder_rel = NoPath
    /\ gitlog = <<>> /\ rc = -1 /\ err = "none"

\* sys.exit(1) after a message, or an uncaught exception
Exit(code, why) == pc' = "exit" /\ rc' = code /\ err' = why

\* the argument count, resolve_repo_path and the os.path.isdir check
ResolveRoot ==
    /\ pc = "start"
    /\ IF argv.argc # 5
       THEN Exit(1, "Usage") /\ UNCHANGED repo_path
       ELSE /\ repo_path' = ResolveRepoPath(argv.repo, env)
            /\ IF ~IsDir(fs, repo_path')
               THEN Exit(1, "RootNotFound")
               ELSE pc' = "check_git" /\ UNCHANGED <<rc, err>>
    /\ UNCHANGED <<jvars, uvars, kvars, argv, env, fs, fs0, src_folder, dest_parent_abs,
                   dst_folder_abs, dst_folder_rel, gitlog>>

\* os.path.exists(os.path.join(repo_path, ".git"))
CheckGit ==
    /\ pc = "check_git"
    /\ IF ~Exists(fs, PathJoin(repo_path, P(0, <<".git">>)))
       THEN Exit(1, "NotARepo")
       ELSE pc' = "resolve_src" /\ UNCHANGED <<rc, err>>
    /\ UNCHANGED <<jvars, uvars, kvars, argv, env, fs, fs0, repo_path, src_folder, dest_parent_abs,
                   dst_folder_abs, dst_folder_rel, gitlog>>

\* safe_join(repo_path, src) and the os.path.isdir check
ResolveSource ==
    /\ pc = "resolve_src"
    /\ LET r == SafeJoin(repo_path, argv.src) IN
       IF ~r.ok
       THEN Exit(1, "PathEscapesRoot") /\ UNCHANGED src_folder
       ELSE /\ src_folder' = r.path
            /\ IF ~IsDir(fs, r.path)
               THEN Exit(1, "SourceNotFound")
               ELSE pc' = "resolve_dst" /\ UNCHANGED <<rc, err>>
    /\ UNCHANGED <<jvars, uvars, kvars, argv, env, fs, fs0, repo_path, dest_parent_abs,
                   dst_folder_abs, dst_folder_rel, gitlog>>

\* the two safe_join calls of the destination, then os.path.relpath
ResolveDest ==
    /\ pc = "resolve_dst"
    /\ LET parent == SafeJoin(repo_path, argv.dest_path) IN
       IF ~parent.ok
       THEN /\ Exit(1, "PathEscapesRoot")
            /\ UNCHANGED <<dest_parent_abs, dst_folder_abs, dst_folder_rel>>
       ELSE LET dst == SafeJoin(parent.path, argv.dest_name) IN
            IF ~dst.ok
            THEN /\ Exit(1, "PathEscapesRoot")
                 /\ dest_parent_abs' = parent.path
                 /\ UNCHANGED <<dst_folder_abs, dst_folder_rel>>
            ELSE /\ dest_parent_abs' = parent.path
                 /\ dst_folder_abs' = dst.path
                 /\ dst_folder_rel' = RelPath(dst.path, repo_path)
                 /\ pc' = "make_parent"
                 /\ UNCHANGED <<rc, err>>
    /\ UNCHANGED <<jvars, uvars, kvars, argv, env, fs, fs0, repo_path, src_folder, gitlog>>

\* os.makedirs(dest_parent_abs, exist_ok=True)
MakeParent ==
    /\ pc = "make_parent"
    /\ IF MakeDirsFails(fs, dest_parent_abs.segs)
       THEN Exit(1, "Crash") /\ UNCHANGED fs
       ELSE /\ fs' = MakeDirsFs(fs, dest_parent_abs.segs)
            /\ pc' = "check_dst"
            /\ UNCHANGED <<rc, err>>
    /\ UNCHANGED <<jvars, uvars, kvars, argv, env, fs0, repo_path, src_folder, dest_parent_abs,
                   dst_folder_abs, dst_folder_rel, gitlog>>

\* os.path.exists(dst_folder_abs)
CheckDest ==
    /\ pc = "check_dst"
    /\ IF Exists(fs, dst_folder_abs)
       THEN Exit(1, "DestinationExists")
       ELSE pc' = "copy" /\ UNCHANGED <<rc, err>>
    /\ UNCHANGED <<jvars, uvars, kvars, argv, env, fs, fs0, repo_path, src_folder, dest_parent_abs,
                   dst_folder_abs, dst_folder_rel, gitlog>>

\* shutil.copytree(src_folder, dst_folder_abs)
CopyTree ==
    /\ pc = "copy"
    /\ IF \/ CopyTreeRunsAway(fs, src_folder.segs, dst_folder_abs.segs)
          \/ MakeDirsFails(fs, dst_folder_abs.segs)
       THEN /\ fs' \in PartialCopies(fs, src_folder.segs, dst_folder_abs.segs)
            /\ Exit(1, "Crash")
       ELSE /\ fs' = CopyTreeFs(fs, src_folder.segs, dst_folder_abs.segs)
            /\ pc' = "git_name"
            /\ UNCHANGED <<rc, err>>
    /\ UNCHANGED <<jvars, uvars, kvars, argv, env, fs0, repo_path, src_folder, dest_parent_abs,
                   dst_folder_abs, dst_folder_rel, gitlog>>

\* subprocess.check_call of one git command in repo_path: the command is
\* run, and a non-zero exit raises CalledProcessError
Git(at, cmd, arg, next) ==
    /\ pc = at
    /\ \E ok \in BOOLEAN :
        /\ gitlog' = Append(gitlog, [cmd |-> cmd, arg |-> arg, ok |-> ok])
        /\ IF ok THEN pc' = next /\ UNCHANGED <<rc, err>>
           ELSE Exit(1, "GitFailed")
    /\ UNCHANGED <<jvars, uvars, kvars, argv, env, fs, fs0, repo_path, src_folder, dest_parent_abs,
                   dst_folder_abs, dst_folder_rel>>

GitConfigName == Git("git_name", "config", "user.name", "git_email")
GitConfigEmail == Git("git_email", "config", "user.email", "git_add")
GitAdd == Git("git_add", "add", dst_folder_rel, "git_commit")

\* f"Copy folder {src} to {dst_folder_rel}"
CommitMessage(src, rel) == [src |-> src, dst |-> rel]

GitCommit ==
    Git("git_commit", "commit", CommitMessage(argv.src, dst_folder_rel), "finish")

\* main returns: exit status 0
Finish ==
    /\ pc = "finish"
    /\ pc' = "exit" /\ rc' = 0
    /\ UNCHANGED <<jvars, uvars, kvars, argv, env, fs, fs0, repo_path, src_folder, dest_parent_abs,
                   dst_folder_abs, dst_folder_rel, gitlog, err>>

CopyNext ==
    \/ ResolveRoot \/ CheckGit \/ ResolveSource \/ ResolveDest \/ MakeParent
    \/ CheckDest \/ CopyTree \/ GitConfigName \/ GitConfigEmail \/ GitAdd
    \/ GitCommit \/ Finish

----------------------------------------------------------------------------
(* Specifications *)

JoinIdle == jpc = "idle" /\ jbase = NoPath /\ juser = NoPath /\ jres = [ok |-> FALSE, path |-> NoPath]

UpdIdle ==
    /\ upc = "idle" /\ uargs = <<>> /\ disk = <<>> /\ disk0 = <<>>
    /\ updates = <<>> /\ yaml_files = <<>> /\ idx = 0 /\ total_changed = 0
    /\ urc = -1 /\ run = 0 /\ hist = <<>> /\ prev_changed = 0

KVIdle == kpc = "idle" /\ rows = <<>> /\ table = <<>>

SpecCopyInit == CopyInit /\ JoinIdle /\ UpdIdle /\ KVIdle

SpecCopy == SpecCopyInit /\ [][CopyNext]_vars

----------------------------------------------------------------------------
(* Directory Replicator: properties *)

\* the user path, joined to the base and normalized, names a place that is
\* neither the base nor below it
Outside(base, user) ==
    ~IsPrefix(Comps(AbsPath(base)), Comps(AbsPath(PathJoin(base, user))))

RootOf(a, e) == ResolveRepoPath(a.repo, e)
SourceEscapes(a, e) == Outside(RootOf(a, e), a.src)
DestParentEscapes(a, e) == Outside(RootOf(a, e), a.dest_path)
DestNameEscapes(a, e) ==
    /\ ~DestParentEscapes(a, e)
    /\ Outside(AbsPath(PathJoin(RootOf(a, e), a.dest_path)), a.dest_name)
SomeEscape(a, e) ==
    a.argc = 5 /\ (SourceEscapes(a, e) \/ DestParentEscapes(a, e) \/ DestNameEscapes(a, e))

\* the steps before the path checks succeed: the root is a directory that
\* holds .git, and the source, when the failing path is a destination
\* path, is a directory inside the root
ReachesEscape(a, e, f) ==
    /\ IsDir(f, RootOf(a, e))
    /\ Exists(f, PathJoin(RootOf(a, e), P(0, <<".git">>)))
    /\ SourceEscapes(a, e) \/ IsDir(f, AbsPath(PathJoin(RootOf(a, e), a.src)))

\* C2 as stated: a run with an escaping source, destination parent or
\* destination name ends with the path-escape error and exit code 1, and
\* nothing was created, copied or handed to git.
C2_AsStated ==
    (pc = "exit" /\ SomeEscape(argv, env)) =>
        err = "PathEscapesRoot" /\ rc = 1 /\ fs = fs0 /\ gitlog = <<>>

\* C2 amended: in every state of a run with an escaping path nothing has
\* been created or copied and no git command has run; the run ends with
\* exit code 1; the error is the path-escape error whenever the root, the
\* repository check and (for a destination escape) the source check pass,
\* and otherwise that error or the error of the earlier failing step.
C2_EscapeStopsBeforeCopy ==
    SomeEscape(argv, env) =>
        /\ fs = fs0
        /\ gitlog = <<>>
        /\ pc \notin {"make_parent", "check_dst", "copy", "git_name", "git_email",
                      "git_add", "git_commit", "finish"}
        /\ pc = "exit" =>
            /\ rc = 1
            /\ IF ReachesEscape(argv, env, fs0)
               THEN err = "PathEscapesRoot"
               ELSE err \in {"RootNotFound", "NotARepo", "SourceNotFound",
                              "PathEscapesRoot"}

\* the spec's scenario: destination folder name "../../etc", everything
\* else valid, ended with the path-escape error
C2_Witness ==
    /\ pc = "exit" /\ err = "PathEscapesRoot" /\ rc = 1
    /\ src_folder # NoPath /\ dest_parent_abs # NoPath
    /\ argv.dest_name = P(0, <<"..", "..", "etc">>)
    /\ ~SourceEscapes(argv, env) /\ ~DestParentEscapes(argv, env)
    /\ DestNameEscapes(argv, env)

\* the destination relative to the root, from the components alone
RelToRoot(dst, root) ==
    P(0, SubSeq(Comps(dst), Len(Comps(AbsPath(root))) + 1, Len(Comps(dst))))

Executed(cmd) == SelectSeq(gitlog, LAMBDA g : g.cmd = cmd)

\* C3: after a run that exits 0 the destination holds the source tree as
\* it was at the start (which is the source tree as it is now, unless the
\* destination lies inside it), nothing that existed was altered, git add ran
\* exactly once, on the destination relative to the root, and the last
\* command is the commit, after the add, whose message carries the source
\* argument and that relative destination.
C3_SuccessfulRun ==
    (pc = "exit" /\ rc = 0) =>
        /\ IsDir(fs0, repo_path)
        /\ IsDir(fs0, src_folder)
        /\ ~Exists(fs0, dst_folder_abs)
        /\ SubTree(fs, dst_folder_abs.segs) = SubTree(fs0, src_folder.segs)
        /\ ~IsPrefix(src_folder.segs, dst_folder_abs.segs) =>
              SubTree(fs, dst_folder_abs.segs) = SubTree(fs, src_folder.segs)
        /\ \A q \in DOMAIN fs0 : q \in DOMAIN fs /\ fs[q] = fs0[q]
        /\ Len(Executed("add")) = 1
        /\ Executed("add")[1].arg = RelToRoot(dst_folder_abs, repo_path)
        /\ Len(Executed("commit")) = 1
        /\ Last(gitlog).cmd = "commit"
        /\ gitlog[Len(gitlog) - 1].cmd = "add"
        /\ Last(gitlog).arg.src = argv.src
        /\ Last(gitlog).arg.dst = RelToRoot(dst_folder_abs, repo_path)
        /\ \A i \in 1..Len(gitlog) : gitlog[i].ok

\* a successful run that copied a tree with a nested file
C3_Witness ==
    /\ pc = "exit" /\ rc = 0
    /\ \E s \in DOMAIN SubTree(fs, dst_folder_abs.segs) :
          Len(s) = 2 /\ fs[dst_folder_abs.segs \o s] # "dir"

ValidationErrors ==
    {"RootNotFound", "NotARepo", "PathEscapesRoot", "SourceNotFound",
     "DestinationExists"}

\* C10 as stated: a run that fails at a validation step leaves the
\* filesystem as it was, and fails with "destination exists" only when the
\* destination existed before the run.
C10_AsStated ==
    (pc = "exit" /\ err \in ValidationErrors) =>
        /\ fs = fs0
        /\ err = "DestinationExists" => Exists(fs0, dst_folder_abs)

----------------------------------------------------------------------------
(* safe_join on its own *)

JoinBases ==
    { P(1, <<"w", "r">>), P(0, <<"r">>), P(2, <<"w", "r">>), P(3, <<"w", "r">>),
      P(1, <<"w", "r", "">>), P(1, <<>>), P(1, <<"w", "r", "..", "n">>) }

JoinUsers ==
    SrcArgs \cup DestPathArgs \cup DestNameArgs \cup
    { P(0, <<" .">>), P(0, <<". ">>), P(0, <<" ..">>), P(0, <<"a", "", "b", ".", "c">>),
      P(2, <<"w", "r", "x">>), P(1, <<"w", "r", "x">>), P(0, <<"..", "rx">>),
      P(0, <<"..", "r">>), P(0, <<"a", "..">>), P(0, <<"a", "..", "..">>),
      P(1, <<"w", "rx">>), P(2, <<>>), P(0, <<".", "">>) }

JoinInit ==
    /\ jpc = "call"
    /\ jbase \in JoinBases
    /\ juser \in JoinUsers
    /\ jres = [ok |-> FALSE, path |-> NoPath]

CallSafeJoin ==
    /\ jpc = "call"
    /\ jres' = SafeJoin(jbase, juser)
    /\ jpc' = "done"
    /\ UNCHANGED <<jbase, juser, cvars, uvars, kvars>>

SpecJoinInit == JoinInit /\ CopyIdle /\ UpdIdle /\ KVIdle

SpecJoin == SpecJoinInit /\ [][CallSafeJoin]_vars

\* a path os.path.normpath leaves as it is
Normalized(p) == NormPath(p) = p

\* C1 as stated: safe_join returns an absolute normalized path that is the
\* base or lies below it, or raises; an input resolving outside the base is
\* rejected; "" and "." return the base itself; the filesystem is not
\* touched.
C1_AsStated ==
    jpc = "done" =>
        /\ jres.ok =>
            /\ IsAbs(jres.path) /\ Normalized(jres.path)
            /\ IsPrefix(Comps(AbsPath(jbase)), Comps(jres.path))
        /\ Outside(jbase, juser) => ~jres.ok
        /\ juser \in {P(0, <<>>), P(0, <<".">>)} =>
            jres.ok /\ jres.path = AbsPath(jbase)
        /\ fs = Tree1

\* the containment half of C1, which the code keeps for every base: what
\* safe_join returns is never outside the base
SafeJoinNeverOutside ==
    (jpc = "done" /\ jres.ok) =>
        /\ IsAbs(jres.path) /\ Normalized(jres.path)
        /\ IsPrefix(Comps(AbsPath(jbase)), Comps(jres.path))
        /\ ~Outside(jbase, juser)

----------------------------------------------------------------------------
(* Config Value Updater: read_key_values *)

\* a cell of the data frame read with dtype=str: a string, or NaN where the
\* reader found the cell missing
Str(x) == [na |-> FALSE, s |-> x]
NaN == [na |-> TRUE, s |-> ""]
Row(k, v) == [key |-> k, value |-> v]

\* Series.astype(str): NaN becomes the string "nan"
AsTypeStr(c) == IF c.na THEN "nan" ELSE c.s

\* Series.fillna("")
FillNa(c) == IF c.na THEN Str("") ELSE c

\* df[key_col].astype(str).str.strip()
KeyOf(r) == StrStrip(AsTypeStr(r.key))

\* df[value_col].fillna("").astype(str)
ValueOf(r) == AsTypeStr(FillNa(r.value))

\* df = df[df[key_col] != ""]
KeepRow(r) == KeyOf(r) # ""

\* a dict as the sequence of its items in insertion order
DictKeys(d) == {d[i][1] : i \in 1..Len(d)}
DictGet(d, k) == (CHOOSE i \in 1..Len(d) : d[i][1] = k)
DictValue(d, k) == d[DictGet(d, k)][2]

\* an assignment that deletes the key and inserts it again at the end
DictSet_Mut(d, k, v) ==
    Append(SelectSeq(d, LAMBDA item : item[1] # k), <<k, v>>)

\* d[k] = v: an existing key keeps its place
DictSet(d, k, v) ==
    IF k \in DictKeys(d)
    THEN [d EXCEPT ![DictGet(d, k)] = <<k, v>>]
    ELSE Append(d, <<k, v>>)

\* dict(zip(keys, values)) over the rows that are kept
RECURSIVE DictZip(_, _)
DictZip(rs, d) ==
    IF rs = <<>> THEN d
    ELSE DictZip(Tail(rs), DictSet(d, KeyOf(Head(rs)), ValueOf(Head(rs))))

ReadKeyValues(rs) == DictZip(SelectSeq(rs, KeepRow), <<>>)

MaxRows == 3

KeyCells == {Str("region"), Str(" region "), Str("timeout"), Str(""), Str(" "), NaN}
ValueCells == {Str("east"), Str("30"), NaN}

RECURSIVE SeqsUpTo(_, _)
SeqsUpTo(S, n) ==
    IF n = 0 THEN {<<>>}
    ELSE LET shorter == SeqsUpTo(S, n - 1)
         IN  shorter \cup {Append(q, x) : q \in shorter, x \in S}

KVInit ==
    /\ kpc = "call"
    /\ rows \in SeqsUpTo({Row(k, v) : k \in KeyCells, v \in ValueCells}, MaxRows)
    /\ table = <<>>

CallReadKeyValues ==
    /\ kpc = "call"
    /\ table' = ReadKeyValues(rows)
    /\ kpc' = "done"
    /\ UNCHANGED <<rows, jvars, cvars, uvars>>

SpecKVInit == KVInit /\ JoinIdle /\ CopyIdle /\ UpdIdle

SpecKV == SpecKVInit /\ [][CallReadKeyValues]_vars

\* the rows that carry key k, by position
RowsWithKey(k) == {i \in 1..Len(rows) : KeyOf(rows[i]) = k}
Max(S) == CHOOSE m \in S : \A n \in S : n <= m

\* a row's key is empty: the cell is missing, or holds only whitespace
EmptyKey(r) == r.key.na \/ StrStrip(r.key.s) = ""

\* C9 as stated: the table holds exactly the keys of the rows whose key is
\* not empty, each mapped to the value of the last row carrying it (a
\* missing value as the empty string); a row with an empty key never
\* appears in the table.
C9_AsStated ==
    kpc = "done" =>
        LET kept == {i \in 1..Len(rows) : ~EmptyKey(rows[i])}
        IN  /\ DictKeys(table) = {StrStrip(rows[i].key.s) : i \in kept}
            /\ \A k \in DictKeys(table) :
                  LET last == rows[Max({i \in kept : StrStrip(rows[i].key.s) = k})]
                  IN  DictValue(table, k) = IF last.value.na THEN "" ELSE last.value.s

\* what the code keeps: with the key taken after astype(str), under which
\* a missing key cell is the string "nan", the last row of each key wins
\* and only the keys that strip to "" are dropped
ReadKeyValuesLastWins ==
    kpc = "done" =>
        /\ DictKeys(table) = {KeyOf(rows[i]) : i \in 1..Len(rows)} \ {""}
        /\ Len(table) = Cardinality(DictKeys(table))
        /\ \A k \in DictKeys(table) :
              LET last == rows[Max(RowsWithKey(k))]
              IN  DictValue(table, k) = IF last.value.na THEN "" ELSE last.value.s

----------------------------------------------------------------------------
(* Config Value Updater: YAML documents *)

\* a file on disk: absent, unparsable, a top-level list, or a top-level
\* mapping written as the sequence of its entries [key, style, text]
Entry(k, style, text) == [key |-> k, style |-> style, text |-> text]
Missing == [kind |-> "missing", entries |-> <<>>]
Bad == [kind |-> "bad", entries |-> <<>>]
TopList == [kind |-> "list", entries |-> <<>>]
Map(es) == [kind |-> "map", entries |-> es]

\* a loaded scalar: its Python type, str() of it, and the quoting kept
\* for the dump
Val(ty, str, style) == [ty |-> ty, s |-> str, style |-> style]

\* yaml.load of one scalar: a quoted scalar is a string; a plain one is
\* null, a boolean, an integer or a string by its text
LoadScalar(style, text) ==
    IF style = "single" THEN Val("str", text, "single")
    ELSE IF text = "" THEN Val("none", "None", "plain")
    ELSE IF text \in {"true", "True"} THEN Val("bool", "True", "plain")
    ELSE IF text \in {"30", "45"} THEN Val("int", text, "plain")
    ELSE Val("str", text, "plain")

\* yaml.dump of one scalar
DumpScalar(v) ==
    CASE v.ty = "none" -> [style |-> "plain", text |-> ""]
      [] v.ty = "bool" -> [style |-> "plain", text |-> "true"]
      [] OTHER -> [style |-> v.style, text |-> v.s]

\* load_yaml of a mapping: the items [key, val] in document order
LoadMap(es) == [i \in 1..Len(es) |-> <<es[i].key, LoadScalar(es[i].style, es[i].text)>>]

\* dump_yaml
DumpMap(d) ==
    Map([i \in 1..Len(d) |->
            Entry(d[i][1], DumpScalar(d[i][2]).style, DumpScalar(d[i][2]).text)])

\* the value handed over as a plain string, which the dump does not quote
SingleQuoted_Mut(v) == Val("str", v, "plain")

\* SingleQuotedScalarString(v)
SingleQuoted(v) == Val("str", v, "single")

\* the test without the add_missing policy
NeedsSet_Mut(after, k, v, add_missing) ==
    k \notin DictKeys(after) \/ DictValue(after, k).s # v

\* one pass of the loop of update_one_yaml over the table's items
NeedsSet(after, k, v, add_missing) ==
    /\ k \in DictKeys(after) \/ add_missing
    /\ k \notin DictKeys(after) \/ DictValue(after, k).s # SingleQuoted(v).s

RECURSIVE ApplyUpdates(_, _, _)
ApplyUpdates(after, ups, add_missing) ==
    IF ups = <<>> THEN after
    ELSE LET k == Head(ups)[1]
             v == Head(ups)[2]
         IN  ApplyUpdates(
                 IF NeedsSet(after, k, v, add_missing)
                 THEN DictSet(after, k, SingleQuoted(v)) ELSE after,
                 Tail(ups), add_missing)

RECURSIVE AnyChanged(_, _, _)
AnyChanged(after, ups, add_missing) ==
    IF ups = <<>> THEN FALSE
    ELSE LET k == Head(ups)[1]
             v == Head(ups)[2]
         IN  \/ NeedsSet(after, k, v, add_missing)
             \/ AnyChanged(
                    IF NeedsSet(after, k, v, add_missing)
                    THEN DictSet(after, k, SingleQuoted(v)) ELSE after,
                    Tail(ups), add_missing)

\* update_one_yaml(yaml_path, updates, add_missing): the exception, or the
\* flag returned, whether dump_yaml ran, and the file as it is left.  A missing or unparsable file
\* raises in load_yaml; a top-level list raises at the first assignment.
UpdateOneYaml(file, ups, add_missing) ==
    CASE file.kind \in {"missing", "bad"} ->
            [raised |-> TRUE, changed |-> FALSE, wrote |-> FALSE, file |-> file]
      [] file.kind = "list" ->
            [raised |-> add_missing /\ ups # <<>>, changed |-> FALSE,
             wrote |-> FALSE, file |-> file]
      [] OTHER ->
            LET before == LoadMap(file.entries)
                changed == AnyChanged(before, ups, add_missing)
            IN  [raised |-> FALSE, changed |-> changed, wrote |-> changed,
                 file |-> IF changed
                          THEN DumpMap(ApplyUpdates(before, ups, add_missing))
                          ELSE file]

----------------------------------------------------------------------------
(* Config Value Updater: resolve_targets *)

\* the files of the model by canonical path, in sorted order
Files == <<"a.yml", "conf/b.yml", "conf/c.yaml", "gone.yml">>

\* Path.resolve()
Canonical(p) == IF p = "./a.yml" THEN "a.yml" ELSE p

OnDisk(d, p) == d[Canonical(p)].kind # "missing"

\* sorted(...) of the files on disk among a sorted candidate list
Present(d, cands) == SelectSeq(cands, LAMBDA p : OnDisk(d, p))

\* one specifier: a glob pattern, a directory, or a literal file
Expand(d, t) ==
    CASE t = "conf/*.yml" -> Present(d, <<"conf/b.yml">>)
      [] t = "*.json" -> <<>>
      [] t = "conf" -> Present(d, <<"conf/b.yml", "conf/c.yaml">>)
      [] OTHER -> <<t>>

Specifiers == {"a.yml", "./a.yml", "gone.yml", "conf", "conf/*.yml", "*.json"}

RECURSIVE ExpandAll(_, _)
ExpandAll(d, ts) ==
    IF ts = <<>> THEN <<>> ELSE Expand(d, Head(ts)) \o ExpandAll(d, Tail(ts))

\* the de-duplication loop: the first path of each canonical path is kept
RECURSIVE Uniq(_, _)
Uniq(resolved, seen) ==
    IF resolved = <<>> THEN <<>>
    ELSE IF Canonical(Head(resolved)) \in seen THEN Uniq(Tail(resolved), seen)
    ELSE <<Head(resolved)>> \o Uniq(Tail(resolved), seen \cup {Canonical(Head(resolved))})

ResolveTargets(d, ts) == Uniq(ExpandAll(d, ts), {})

----------------------------------------------------------------------------
(* Config Value Updater: main(), run twice in succession *)

MaxTargets == 2

\* the rows of the input file
RowLists ==
    { <<Row(Str("region"), Str("east")), Row(Str("timeout"), Str("30"))>>,
      <<Row(Str("region"), Str("west")), Row(Str(" region "), Str("east")),
        Row(Str(" "), Str("30"))>>,
      <<Row(Str("flag"), Str("true")), Row(Str("name"), NaN)>>,
      <<>> }

\* the target files before the first run
Disks ==
    { [p \in Range(Files) |->
          CASE p = "a.yml" -> a [] p = "conf/b.yml" -> b
            [] p = "conf/c.yaml" -> c [] OTHER -> Missing] :
      a \in { Map(<<Entry("region", "single", "west")>>),
              Map(<<Entry("timeout", "plain", "45"), Entry("other", "plain", "keep"),
                    Entry("region", "single", "east")>>),
              Map(<<Entry("flag", "plain", "True"), Entry("name", "plain", "")>>),
              Map(<<>>), TopList },
      b \in { Missing, Map(<<Entry("region", "plain", "west")>>),
              Map(<<Entry("region", "single", "east"), Entry("timeout", "single", "30")>>) },
      c \in { Bad, Map(<<Entry("flag", "plain", "true")>>) } }

UArgs(input, rs, ts, nam, fail) ==
    [input |-> input, rows |-> rs, targets |-> ts, no_add_missing |-> nam,
     fail_if_no_changes |-> fail]

TargetLists == SeqsUpTo(Specifiers, MaxTargets) \ {<<>>}

\* the command line: a readable input with every table and target list, and
\* an input that is missing, of an unsupported type or without the columns
UArgsSet ==
    {UArgs("ok", rs, ts, nam, fail) :
        rs \in RowLists, ts \in TargetLists, nam \in BOOLEAN, fail \in BOOLEAN}
    \cup {UArgs(i, <<>>, <<"a.yml">>, FALSE, fail) :
        i \in {"missing", "unsupported", "no_columns"}, fail \in BOOLEAN}

UpdInit ==
    /\ upc = "start"
    /\ uargs \in UArgsSet
    /\ disk \in Disks
    /\ disk0 = disk
    /\ updates = <<>> /\ yaml_files = <<>> /\ idx = 0 /\ total_changed = 0
    /\ urc = -1 /\ run = 1 /\ hist = <<>> /\ prev_changed = 0

UExit(code) == upc' = "exit" /\ urc' = code

\* an exception nothing catches: traceback and exit status 1
UCrash == upc' = "crashed" /\ urc' = 1

\* the status without the count
FinalStatus_Mut(fail_if_no_changes, changed_count) ==
    IF fail_if_no_changes THEN 3 ELSE 0

\* the exit status after the loop
FinalStatus(fail_if_no_changes, changed_count) ==
    IF fail_if_no_changes /\ changed_count = 0 THEN 3 ELSE 0

\* main up to the loop: the input check, read_key_values, resolve_targets
UStart ==
    /\ upc = "start"
    /\ IF uargs.input = "missing"
       THEN UExit(2) /\ UNCHANGED <<updates, yaml_files, idx>>
       ELSE IF uargs.input # "ok"
       THEN UCrash /\ UNCHANGED <<updates, yaml_files, idx>>
       ELSE /\ updates' = ReadKeyValues(uargs.rows)
            /\ yaml_files' = ResolveTargets(disk, uargs.targets)
            /\ IF yaml_files' = <<>>
               THEN UExit(2) /\ UNCHANGED idx
               ELSE upc' = "loop" /\ idx' = 1 /\ UNCHANGED urc
    /\ UNCHANGED <<uargs, disk, disk0, total_changed, run, hist, prev_changed,
                   jvars, cvars, kvars>>

\* one iteration of the loop over yaml_files
ProcessFile ==
    /\ upc = "loop" /\ idx <= Len(yaml_files)
    /\ LET y == yaml_files[idx]
           r == UpdateOneYaml(disk[Canonical(y)], updates, ~uargs.no_add_missing)
       IN  /\ hist' = Append(hist, [file |-> y, raised |-> r.raised,
                                    changed |-> r.changed,
                                    wrote |-> r.wrote])
           /\ IF r.raised
              THEN UExit(1) /\ UNCHANGED <<disk, total_changed, idx>>
              ELSE /\ disk' = [disk EXCEPT ![Canonical(y)] = r.file]
                   /\ total_changed' = total_changed + (IF r.changed THEN 1 ELSE 0)
                   /\ idx' = idx + 1
                   /\ UNCHANGED <<upc, urc>>
    /\ UNCHANGED <<uargs, disk0, updates, yaml_files, run, prev_changed,
                   jvars, cvars, kvars>>

\* after the loop: the summary and the exit status
Summarize ==
    /\ upc = "loop" /\ idx > Len(yaml_files)
    /\ UExit(FinalStatus(uargs.fail_if_no_changes, total_changed))
    /\ UNCHANGED <<uargs, disk, disk0, updates, yaml_files, idx, total_changed,
                   run, hist, prev_changed, jvars, cvars, kvars>>

\* the same command line once more, on the files as the first run left them
RunAgain ==
    /\ upc \in {"exit", "crashed"} /\ run = 1
    /\ run' = 2 /\ upc' = "start" /\ urc' = -1
    /\ disk0' = disk
    /\ updates' = <<>> /\ yaml_files' = <<>> /\ idx' = 0 /\ total_changed' = 0
    /\ hist' = <<>>
    /\ prev_changed' = total_changed
    /\ UNCHANGED <<uargs, disk, jvars, cvars, kvars>>

UpdNext == UStart \/ ProcessFile \/ Summarize \/ RunAgain

SpecUpdInit == UpdInit /\ JoinIdle /\ CopyIdle /\ KVIdle

SpecUpd == SpecUpdInit /\ [][UpdNext]_vars

----------------------------------------------------------------------------
(* Config Value Updater: properties *)

\* the file of a per-file update of this run, before the run and now; a
\* file is updated at most once in a run
Before(e) == disk0[Canonical(e.file)]
After(e) == disk[Canonical(e.file)]
AddMissing == ~uargs.no_add_missing

FileKeys(f) == {f.entries[i].key : i \in 1..Len(f.entries)}
FileEntry(f, k) == f.entries[CHOOSE i \in 1..Len(f.entries) : f.entries[i].key = k]
FileVal(f, k) == LoadScalar(FileEntry(f, k).style, FileEntry(f, k).text)
KeySeq(f) == [i \in 1..Len(f.entries) |-> f.entries[i].key]

Updated == {i \in 1..Len(hist) : ~hist[i].raised}
Raised == {i \in 1..Len(hist) : hist[i].raised}

\* C4 as stated: when a per-file update raises, every later file of the
\* resolved sequence is still processed and the run exits non-zero.
C4_AsStated ==
    (upc = "exit" /\ Raised # {}) =>
        /\ Len(hist) = Len(yaml_files)
        /\ urc # 0

\* C5: in the second of two runs with the same command line no per-file
\* update returns changed, no file is written, every file is as the first
\* run left it, and the changed count is 0.
C5_SecondRunChangesNothing ==
    run = 2 =>
        /\ disk = disk0
        /\ total_changed = 0
        /\ \A i \in 1..Len(hist) : ~hist[i].changed /\ ~hist[i].wrote

\* a second run that went through at least two files after a first run
\* that changed some
C5_Witness ==
    /\ run = 2 /\ upc = "exit" /\ urc = 0
    /\ prev_changed >= 1 /\ Len(hist) >= 2

\* C6: after a per-file update, a table key that was absent from the file
\* is absent still when add_missing is off and is present as the string of
\* the table's value when it is on; a key that was present holds the
\* table's value as a string, and is left as it was when it already did;
\* with add_missing off and every present key matching, the update returns
\* changed = false.
C6_AddMissingPolicy ==
    \A i \in Updated :
        LET b == Before(hist[i])
            a == After(hist[i])
        IN  b.kind = "map" =>
            /\ a.kind = "map"
            /\ \A k \in DictKeys(updates) :
                  LET v == DictValue(updates, k) IN
                  IF k \notin FileKeys(b)
                  THEN IF AddMissing
                       THEN k \in FileKeys(a) /\ FileVal(a, k) = Val("str", v, "single")
                       ELSE k \notin FileKeys(a)
                  ELSE /\ k \in FileKeys(a)
                       /\ FileVal(a, k).s = v
                       /\ FileVal(b, k).s = v => FileVal(a, k) = FileVal(b, k)
            /\ (~AddMissing /\ \A k \in DictKeys(updates) \cap FileKeys(b) :
                                  FileVal(b, k).s = DictValue(updates, k))
                  => ~hist[i].changed

\* the spec's scenario: table {region: east, timeout: 30}, a file holding
\* only region: 'west', add_missing off; region is updated, timeout is not
\* added, the file is reported changed
C6_Witness ==
    /\ run = 1 /\ ~AddMissing
    /\ updates = <<<<"region", "east">>, <<"timeout", "30">>>>
    /\ \E i \in Updated :
          /\ Before(hist[i]) = Map(<<Entry("region", "single", "west")>>)
          /\ After(hist[i]) = Map(<<Entry("region", "single", "east")>>)
          /\ hist[i].changed

\* some table key applies to the file and does not already hold the
\* table's value as a string
SomeKeyDiffers(f) ==
    /\ f.kind = "map"
    /\ \E k \in DictKeys(updates) :
          /\ k \in FileKeys(f) \/ AddMissing
          /\ k \notin FileKeys(f) \/ FileVal(f, k).s # DictValue(updates, k)

\* C8: a per-file update writes the file exactly when some applicable key
\* differs, and returns changed exactly then; otherwise the file is as it
\* was.  In a rewritten file the keys the file had are all there in their
\* order, every key the table does not name or whose value already matched
\* holds its previous value, and every new key is a table key.
C8_RewriteOnlyIfChanged ==
    \A i \in Updated :
        LET b == Before(hist[i])
            a == After(hist[i])
        IN  /\ hist[i].wrote = SomeKeyDiffers(b)
            /\ hist[i].changed = SomeKeyDiffers(b)
            /\ ~SomeKeyDiffers(b) => a = b
            /\ SomeKeyDiffers(b) =>
                /\ SelectSeq(KeySeq(a), LAMBDA k : k \in FileKeys(b)) = KeySeq(b)
                /\ FileKeys(a) \ FileKeys(b) \subseteq DictKeys(updates)
                /\ \A k \in FileKeys(b) :
                      (k \notin DictKeys(updates) \/ FileVal(b, k).s = DictValue(updates, k))
                          => FileVal(a, k) = FileVal(b, k)

\* a rewritten file that kept an entry the table does not name and one
\* that already matched, next to a changed one; and a file left alone
C8_Witness ==
    /\ \E i \in Updated :
          /\ hist[i].wrote
          /\ \E k \in FileKeys(Before(hist[i])) : k \notin DictKeys(updates)
          /\ \E k \in FileKeys(Before(hist[i])) \cap DictKeys(updates) :
                FileVal(Before(hist[i]), k).s = DictValue(updates, k)
    /\ \E i \in Updated : ~hist[i].wrote /\ Before(hist[i]).kind = "map"

\* no specifier yields a path
NoTargets == \A i \in 1..Len(uargs.targets) : Expand(disk0, uargs.targets[i]) = <<>>

\* C7: the exit status of a run that returned from main: 2 for a missing
\* input file or no resolved target, with no file touched; 1 when a
\* per-file update raised; 3 when every file was processed, none changed
\* and --fail-if-no-changes is set; 0 otherwise.  The changed count is the
\* number of per-file updates that returned changed = true.
C7_ExitStatus ==
    /\ total_changed = Cardinality({i \in 1..Len(hist) : hist[i].changed})
    /\ upc = "exit" =>
        /\ urc = CASE uargs.input = "missing" \/ NoTargets -> 2
                   [] Raised # {} -> 1
                   [] uargs.fail_if_no_changes /\ total_changed = 0 -> 3
                   [] OTHER -> 0
        /\ urc = 2 => hist = <<>> /\ disk = disk0
        /\ urc \in {0, 3} => Len(hist) = Len(yaml_files) /\ Raised = {}

\* the spec's scenario: --fail-if-no-changes, every target already matches
\* the table, exit status 3 with a zero changed count
C7_Witness ==
    /\ upc = "exit" /\ urc = 3 /\ total_changed = 0
    /\ Len(hist) >= 2 /\ updates # <<>>
    /\ \E i \in 1..Len(hist) : DictKeys(updates) \cap FileKeys(Before(hist[i])) # {}

====
